---- MODULE Spec2Model ----
(***************************************************************************)
(* Model of gammafit/radiative.py: the Synchrotron, InverseCompton and     *)
(* PionDecay emission models, their flux/sed entry points, the seed photon *)
(* field processing of InverseCompton and the per-call state machine of    *)
(* PionDecay.flux.                                                         *)
(*                                                                         *)
(* Numbers are exact: a value is n/d * 10^e * q^k, where q is the number   *)
(* of erg in one eV.  A quantity is a value with a unit, a unit is a       *)
(* dimension with its factor to the base units (eV, s, cm, K, G), and a    *)
(* conversion rescales the value by the ratio of the two factors, as       *)
(* astropy's Quantity.to does.  Floating point rounding is not modelled.   *)
(*                                                                         *)
(* The numerical quadratures (np.trapz over the particle grid, scipy quad) *)
(* depend on the caller's particle_distribution, which is an input: each   *)
(* is a positive number drawn, per photon energy, when the model instance  *)
(* is constructed.                                                         *)
(***************************************************************************)
EXTENDS Integers, Sequences, FiniteSets, TLC

(* ------------------------------------------------------------------ *)
(* Exact numbers                                                      *)
(* ------------------------------------------------------------------ *)

Abs(x) == IF x < 0 THEN -x ELSE x

RECURSIVE GCD(_, _)
GCD(a, b) == IF b = 0 THEN a ELSE GCD(b, a % b)

\* n/d * 10^e * q^k in normal form: n/d reduced, d > 0 coprime to 10, n
\* not a multiple of 10; zero is 0/1 * 10^0 * q^0.
RECURSIVE Strip(_, _, _, _)
Strip(n, d, e, k) ==
    IF d % 2 = 0 THEN Strip(n * 5, d \div 2, e - 1, k)
    ELSE IF d % 5 = 0 THEN Strip(n * 2, d \div 5, e - 1, k)
    ELSE IF n % 10 = 0 THEN Strip(n \div 10, d, e + 1, k)
    ELSE [n |-> n, d |-> d, e |-> e, k |-> k]

Reduce(n, d, g, e, k) ==
    IF d < 0 THEN Strip((-n) \div g, (-d) \div g, e, k)
    ELSE Strip(n \div g, d \div g, e, k)

Norm(n, d, e, k) ==
    IF n = 0 THEN [n |-> 0, d |-> 1, e |-> 0, k |-> 0]
    ELSE IF d = 1 /\ n % 10 # 0 THEN [n |-> n, d |-> d, e |-> e, k |-> k]
    ELSE Reduce(n, d, GCD(Abs(n), Abs(d)), e, k)

Num(n) == Norm(n, 1, 0, 0)
Rat(n, d) == Norm(n, d, 0, 0)
Pow10(e) == [n |-> 1, d |-> 1, e |-> e, k |-> 0]
\* q^k: 1 eV = q erg
ErgPerEV(k) == [n |-> 1, d |-> 1, e |-> 0, k |-> k]

\* a * b and a / b; a factor 10^e * q^k only shifts the exponents
NMul(a, b) ==
    IF a.n = 0 \/ b.n = 0 THEN [n |-> 0, d |-> 1, e |-> 0, k |-> 0]
    ELSE IF b.n = 1 /\ b.d = 1 THEN [a EXCEPT !.e = a.e + b.e, !.k = a.k + b.k]
    ELSE IF a.n = 1 /\ a.d = 1 THEN [b EXCEPT !.e = a.e + b.e, !.k = a.k + b.k]
    ELSE Norm(a.n * b.n, a.d * b.d, a.e + b.e, a.k + b.k)
NDiv(a, b) ==
    IF a.n = 0 THEN [n |-> 0, d |-> 1, e |-> 0, k |-> 0]
    ELSE IF b.n = 1 /\ b.d = 1 THEN [a EXCEPT !.e = a.e - b.e, !.k = a.k - b.k]
    ELSE Norm(a.n * b.d, a.d * b.n, a.e - b.e, a.k - b.k)

RECURSIVE IntPow10(_)
IntPow10(e) == IF e = 0 THEN 1 ELSE 10 * IntPow10(e - 1)

\* the integer mantissa of a over the common exponent m and denominator
Mant(a, m, den) ==
    IF a.n = 0 THEN 0 ELSE a.n * (den \div a.d) * IntPow10(a.e - m)
MinExp(a, b) == IF a.n = 0 THEN b.e ELSE IF b.n = 0 THEN a.e
                ELSE IF a.e < b.e THEN a.e ELSE b.e

\* a + b, for two values with the same power of q (same unit)
NAdd(a, b) ==
    LET m == MinExp(a, b)
        den == a.d * b.d
        kk == IF a.n = 0 THEN b.k ELSE a.k
    IN  Norm(Mant(a, m, den) + Mant(b, m, den), den, m, kk)

\* a < b and a >= b, for two values with the same power of q
NLess(a, b) ==
    LET m == MinExp(a, b)
        den == a.d * b.d
    IN  Mant(a, m, den) < Mant(b, m, den)
NGeq(a, b) == ~NLess(a, b)

(* ------------------------------------------------------------------ *)
(* Units and quantities (astropy.units as the source uses it)         *)
(* ------------------------------------------------------------------ *)

\* dimension exponents: energy, time, length, temperature, magnetic field
Dim(en, t, len, temp, mag) ==
    [en |-> en, t |-> t, len |-> len, temp |-> temp, mag |-> mag]
Unit(dim, f) == [dim |-> dim, f |-> f]

DimEnergy == Dim(1, 0, 0, 0, 0)
DimFlux == Dim(-1, -1, 0, 0, 0)
DimLum == Dim(1, -1, 0, 0, 0)
DimTemperature == Dim(0, 0, 0, 1, 0)
DimMagnetic == Dim(0, 0, 0, 0, 1)
\* energy density has the physical type of pressure
DimPressure == Dim(1, 0, -3, 0, 0)

U_one == Unit(Dim(0, 0, 0, 0, 0), Num(1))
U_eV == Unit(DimEnergy, Num(1))
U_GeV == Unit(DimEnergy, Pow10(9))
U_TeV == Unit(DimEnergy, Pow10(12))
U_erg == Unit(DimEnergy, ErgPerEV(-1))
U_s == Unit(Dim(0, 1, 0, 0, 0), Num(1))
U_cm5 == Unit(Dim(0, 0, 5, 0, 0), Num(1))
U_K == Unit(DimTemperature, Num(1))
U_G == Unit(DimMagnetic, Num(1))
U_eV_per_cm3 == Unit(DimPressure, Num(1))
U_per_s == Unit(Dim(0, -1, 0, 0, 0), Num(1))
U_per_s_eV == Unit(DimFlux, Num(1))
U_per_s_TeV == Unit(DimFlux, Pow10(-12))
U_per_s_erg == Unit(DimFlux, ErgPerEV(1))
U_erg_per_s == Unit(DimLum, ErgPerEV(-1))

UMul(u, v) ==
    Unit(Dim(u.dim.en + v.dim.en, u.dim.t + v.dim.t, u.dim.len + v.dim.len,
             u.dim.temp + v.dim.temp, u.dim.mag + v.dim.mag),
         NMul(u.f, v.f))
UDiv(u, v) ==
    Unit(Dim(u.dim.en - v.dim.en, u.dim.t - v.dim.t, u.dim.len - v.dim.len,
             u.dim.temp - v.dim.temp, u.dim.mag - v.dim.mag),
         NDiv(u.f, v.f))

Qty(val, unit) == [val |-> val, unit |-> unit]
QMul(a, b) == Qty(NMul(a.val, b.val), UMul(a.unit, b.unit))
QDiv(a, b) == Qty(NDiv(a.val, b.val), UDiv(a.unit, b.unit))
QScale(c, a) == Qty(NMul(c, a.val), a.unit)
\* Quantity.to(unit): defined when the dimensions agree
QTo(a, unit) == Qty(NMul(a.val, NDiv(a.unit.f, unit.f)), unit)
\* the value in base units
QBase(a) == NMul(a.val, a.unit.f)
\* comparison of two quantities of the same dimension
QLess(a, b) == NLess(QBase(a), QBase(b))
QGeq(a, b) == NGeq(QBase(a), QBase(b))
\* the same physical value, whatever the unit
QSame(a, b) == a.unit.dim = b.unit.dim /\ QBase(a) = QBase(b)


(* ------------------------------------------------------------------ *)
(* Bounds and input domains                                           *)
(* ------------------------------------------------------------------ *)

\* longest photon energy array of a request
MaxLen == 2
\* most entries of a seed_photon_fields list or hyphen-joined string
MaxSeeds == 2
\* the values a quadrature over the particle distribution may take
KernelValues == 1..2

Threads == {1, 2}

\* sequences over S of length 0..n
SeqUpTo(S, n) == UNION {[1..m -> S] : m \in 0..n}
\* optional attribute: <<>> when the attribute is not set
None == <<>>
Some(v) == <<v>>
IsSet(o) == o # <<>>
Get(o) == o[1]

\* photon energies: 50 GeV and 100 GeV (= 0.1 TeV), as arrays in GeV and
\* as single energies in TeV
EnergyArrays ==
    {[vals |-> v, unit |-> U_GeV] : v \in SeqUpTo({Num(50), Num(100)}, MaxLen)}
    \cup {[vals |-> v, unit |-> U_TeV] :
             v \in SeqUpTo({Rat(1, 20), Rat(1, 10)}, 1) \ {<<>>}}

\* the physical energies (in eV) the quadratures are tabulated on
EKeys == {Pow10(11), NMul(Num(5), Pow10(10))}
EKey(q) == QBase(q)

\* photon_energy arguments: a Quantity array, a unitless list (which
\* u.Quantity turns into a dimensionless Quantity), a dict or Table
PhotonInputs ==
    {[form |-> "quantity", cols |-> {}, vals |-> a.vals, unit |-> a.unit] :
         a \in EnergyArrays}
    \cup {[form |-> "quantity", cols |-> {}, vals |-> <<Num(1)>>, unit |-> U_s],
          [form |-> "quantity", cols |-> {}, vals |-> <<Num(50)>>, unit |-> U_one],
          [form |-> "dict", cols |-> {"energy", "flux"}, vals |-> <<Num(50), Num(100)>>, unit |-> U_GeV],
          [form |-> "dict", cols |-> {"energy"}, vals |-> <<Num(1)>>, unit |-> U_s],
          [form |-> "dict", cols |-> {"flux"}, vals |-> <<Num(50)>>, unit |-> U_GeV]}

(* ------------------------------------------------------------------ *)
(* Validation helpers                                                 *)
(* ------------------------------------------------------------------ *)

\* extern.validator.validate_physical_type / validate_array
validate_physical_type(unit, dim) == unit.dim = dim
\* extern.validator.validate_scalar, with or without domain='positive'
validate_scalar(q, dim, positive) ==
    q.unit.dim = dim /\ (positive => q.val.n > 0)

\* _validate_ene: the energy array, or the error raised
_validate_ene(ene) ==
    IF ene.form = "dict"
    THEN IF "energy" \notin ene.cols
         THEN [ok |-> FALSE, err |-> "TypeError", vals |-> <<>>, unit |-> U_one]
         ELSE IF validate_physical_type(ene.unit, DimEnergy)
              THEN [ok |-> TRUE, err |-> "", vals |-> ene.vals, unit |-> ene.unit]
              ELSE [ok |-> FALSE, err |-> "UnitsError", vals |-> <<>>, unit |-> U_one]
    ELSE IF validate_physical_type(ene.unit, DimEnergy)
         THEN [ok |-> TRUE, err |-> "", vals |-> ene.vals, unit |-> ene.unit]
         ELSE [ok |-> FALSE, err |-> "UnitsError", vals |-> <<>>, unit |-> U_one]

\* a validated energy array passed on as an argument (sed -> flux)
AsInput(v) == [form |-> "quantity", cols |-> {}, vals |-> v.vals, unit |-> v.unit]
\* element i of an array Quantity
At(a, i) == Qty(a.vals[i], a.unit)

(* ------------------------------------------------------------------ *)
(* Model instances                                                    *)
(* ------------------------------------------------------------------ *)

\* seed photon field names are character strings, so that split('-') is
\* computed and not assumed
CMB == <<"C", "M", "B">>
FIR == <<"F", "I", "R">>
NIR == <<"N", "I", "R">>
XRAY == <<"X", "R", "A", "Y">>
DUST == <<"D", "U", "S", "T">>

ZeroTable == [k \in EKeys |-> 0]

\* The particle_distribution callable, as the values the quadratures over
\* it take: wp (W_p integral), hi (_photon_integrand), lo (_delta_integrand
\* with nhat = 1), sy (synchrotron trapz), and its amplitude amp, in which
\* the inverse Compton trapz is linear.
NoDistribution ==
    [wp |-> 0, hi |-> ZeroTable, lo |-> ZeroTable, sy |-> ZeroTable, amp |-> 0]

\* An instance: its class, constructor arguments and the attributes the
\* methods store on self (None while the attribute does not exist).
NoInstance ==
    [cls |-> "none", particle_distribution |-> NoDistribution, B |-> None,
     seed_photon_fields |-> <<>>, seedT |-> <<>>, seeduf |-> <<>>,
     log10gmin |-> None, log10gmax |-> None, ngamd |-> None,
     gam |-> None, nelec |-> None, specic |-> None,
     Etrans |-> None, Wp |-> None, nhat |-> None, specpp |-> None]

\* A call in progress on a thread: pc is the position in the method.
IdleFrame ==
    [pc |-> "idle", kind |-> "", arg |-> None, vals |-> <<>>, unit |-> U_one,
     i |-> 0, full |-> None, delta |-> None, val |-> None,
     spec |-> <<>>, ret |-> <<>>, err |-> "", nquad |-> 0]

(* ------------------------------------------------------------------ *)
(* Helpers shared by the three models                                *)
(* ------------------------------------------------------------------ *)

\* an array built element by element, as a finite sequence
Arr(a) == a \o <<>>

\* np.zeros(n) * unit
Zeros(n, unit) == Arr([i \in 1..n |-> Qty(Num(0), unit)])
\* array.to(unit)
ArrTo(arr, unit) == Arr([i \in 1..Len(arr) |-> QTo(arr[i], unit)])

\* Each step of PionDecay.flux maps (self, frame) to the pair after it.
Pair(self, f) == [self |-> self, f |-> f]
Fail(self, f, err) == Pair(self, [f EXCEPT !.pc = "failed", !.err = err])

\* SedOf with the photon energy taken once instead of squared
SedOf_LinearInE(spec, f) ==
    Arr([i \in 1..Len(spec) |-> QTo(QMul(spec[i], At(f, i)), U_erg_per_s)])

\* sed, lines 137, 323, 510: (spec * outspecene ** 2).to('erg/s')
SedOf(spec, f) ==
    Arr([i \in 1..Len(spec) |->
            QTo(QMul(spec[i], QMul(At(f, i), At(f, i))), U_erg_per_s)])

(* ------------------------------------------------------------------ *)
(* Synchrotron                                                        *)
(* ------------------------------------------------------------------ *)

Done(self, f, spec) ==
    Pair(self, [f EXCEPT !.pc = "done", !.spec = spec,
                         !.ret = IF f.kind = "sed" THEN SedOf(spec, f) ELSE spec])

\* entry of flux (and of sed, which validates and calls flux): the frame
\* with the validated energies, or the failed frame
Enter(kind, arg, pc) ==
    LET v == _validate_ene(arg)
        w == IF kind = "sed" /\ v.ok THEN _validate_ene(AsInput(v)) ELSE v
        g == [IdleFrame EXCEPT !.kind = kind, !.arg = Some(arg)]
    IN  IF w.ok
        THEN [g EXCEPT !.pc = pc, !.vals = w.vals, !.unit = w.unit]
        ELSE [g EXCEPT !.pc = "failed", !.err = w.err]

\* Synchrotron.__init__: the instance, or None when validate_scalar raises
Synchrotron_init(particle_distribution, B) ==
    IF validate_scalar(B, DimMagnetic, FALSE)
    THEN Some([NoInstance EXCEPT !.cls = "Synchrotron",
                  !.particle_distribution = particle_distribution,
                  !.B = Some(B)])
    ELSE None

\* np.logspace(log10gmin, log10gmax, ngamd*log10gmax/log10gmin)
Logspace(log10gmin, log10gmax, ngamd) ==
    [start |-> log10gmin, stop |-> log10gmax,
     num |-> NDiv(NMul(ngamd, log10gmax), log10gmin)]

\* _nelec, lines 63-70 and 224-231: the grid and the population sample
Nelec(self, log10gmin, log10gmax, ngamd) ==
    [self EXCEPT !.log10gmin = Some(log10gmin), !.log10gmax = Some(log10gmax),
                 !.ngamd = Some(ngamd),
                 !.gam = Some(Logspace(log10gmin, log10gmax, ngamd)),
                 !.nelec = Some(self.particle_distribution)]

Synchrotron_nelec(self) == Nelec(self, Num(4), Num(10), Num(100))

\* Synchrotron.flux, lines 84-120: np.trapz(nelec * dNdE, gam) / s / erg,
\* converted to 1/(s eV)
Synchrotron_flux(self, f) ==
    LET s1 == Synchrotron_nelec(self)
        spec == Arr([i \in 1..Len(f.vals) |->
                    QTo(Qty(Num(Get(s1.nelec).sy[EKey(At(f, i))]), U_per_s_erg),
                        U_per_s_eV)])
    IN  Done(s1, [f EXCEPT !.nquad = Len(f.vals)], spec)

(* ------------------------------------------------------------------ *)
(* InverseCompton                                                     *)
(* ------------------------------------------------------------------ *)

ZeroK == Qty(Num(0), U_K)
ZeroU == Qty(Num(0), U_eV_per_cm3)
\* an item of the seed_photon_fields list: a string, a list or a tuple
StrSeed(str) ==
    [kind |-> "str", str |-> str, len |-> 0, name |-> <<>>, T |-> ZeroK,
     uu |-> ZeroU]
ListSeed(kind, len, name, T, uu) ==
    [kind |-> kind, str |-> <<>>, len |-> len, name |-> name, T |-> T, uu |-> uu]

\* str.split('-')
RECURSIVE SplitFrom(_, _, _, _)
SplitFrom(str, i, cur, acc) ==
    IF i > Len(str) THEN Append(acc, cur)
    ELSE IF str[i] = "-" THEN SplitFrom(str, i + 1, <<>>, Append(acc, cur))
    ELSE SplitFrom(str, i + 1, Append(cur, str[i]), acc)
Split(str) == SplitFrom(str, 1, <<>>, <<>>)

Tcmb == Qty(Norm(272548, 100000, 0, 0), U_K)
Tfir == Qty(Num(70), U_K)
ufir == Qty(Rat(2, 10), U_eV_per_cm3)
Tnir == Qty(Num(5000), U_K)
unir == Qty(Rat(2, 10), U_eV_per_cm3)

\* the dilution factor: 1.0, or (u / (ar * T ** 4)).decompose(), kept as
\* its operands
Blackbody == [bb |-> TRUE, uu |-> ZeroU, T |-> ZeroK]
Dilution(uu, T) == [bb |-> FALSE, uu |-> uu, T |-> T]

\* dict[key] = value
Put(dict, key, value) ==
    [x \in DOMAIN dict \cup {key} |-> IF x = key THEN value ELSE dict[x]]

\* lines 191-222, for item idx of the list: the instance with the item
\* processed, or the error raised
ProcessSeed(self, idx) ==
    LET inseed == self.seed_photon_fields[idx]
        ok(s) == [ok |-> TRUE, err |-> "", self |-> s]
        raise(e) == [ok |-> FALSE, err |-> e, self |-> self]
    IN  IF inseed.kind = "str"
        THEN IF inseed.str = CMB
             THEN ok([self EXCEPT !.seedT = Put(@, CMB, Tcmb),
                                  !.seeduf = Put(@, CMB, Blackbody)])
             ELSE IF inseed.str = FIR
             THEN ok([self EXCEPT !.seedT = Put(@, FIR, Tfir),
                                  !.seeduf = Put(@, FIR, Dilution(ufir, Tfir))])
             ELSE IF inseed.str = NIR
             THEN ok([self EXCEPT !.seedT = Put(@, NIR, Tnir),
                                  !.seeduf = Put(@, NIR, Dilution(unir, Tnir))])
             ELSE raise("TypeError")
        ELSE IF inseed.kind = "list" /\ inseed.len = 3
        THEN IF ~validate_scalar(inseed.T, DimTemperature, TRUE)
             THEN raise("ValueError")
             ELSE IF inseed.uu.val.n = 0
             THEN ok([self EXCEPT
                         !.seed_photon_fields[idx] = StrSeed(inseed.name),
                         !.seedT = Put(@, inseed.name, inseed.T),
                         !.seeduf = Put(@, inseed.name, Blackbody)])
             ELSE IF ~validate_scalar(inseed.uu, DimPressure, TRUE)
             THEN raise("ValueError")
             ELSE ok([self EXCEPT
                         !.seed_photon_fields[idx] = StrSeed(inseed.name),
                         !.seedT = Put(@, inseed.name, inseed.T),
                         !.seeduf = Put(@, inseed.name,
                                        Dilution(inseed.uu, inseed.T))])
        ELSE raise("TypeError")

\* the loop of line 191 with the raise left out: an item that cannot be
\* processed is warned about and dropped
RECURSIVE ProcessSeeds_DropBad(_, _)
ProcessSeeds_DropBad(self, idx) ==
    IF idx > Len(self.seed_photon_fields)
    THEN [ok |-> TRUE, err |-> "", self |-> self]
    ELSE LET r == ProcessSeed(self, idx)
             s == self.seed_photon_fields
         IN  IF r.ok THEN ProcessSeeds_DropBad(r.self, idx + 1)
             ELSE ProcessSeeds_DropBad(
                      [self EXCEPT !.seed_photon_fields =
                          SubSeq(s, 1, idx - 1) \o SubSeq(s, idx + 1, Len(s))],
                      idx)

\* the loop of line 191 from item idx on
RECURSIVE ProcessSeedsFrom(_, _)
ProcessSeedsFrom(self, idx) ==
    IF idx > Len(self.seed_photon_fields)
    THEN [ok |-> TRUE, err |-> "", self |-> self]
    ELSE LET r == ProcessSeed(self, idx)
         IN  IF r.ok THEN ProcessSeedsFrom(r.self, idx + 1) ELSE r

\* _process_input_seed, lines 174-222
_process_input_seed(self, seed_photon_fields) ==
    LET fields == IF seed_photon_fields.form # "list"
                  THEN [i \in 1..Len(Split(seed_photon_fields.str)) |->
                           StrSeed(Split(seed_photon_fields.str)[i])]
                  ELSE seed_photon_fields.items
    IN  ProcessSeedsFrom([self EXCEPT !.seed_photon_fields = fields], 1)

\* InverseCompton.__init__, lines 168-172
InverseCompton_init(particle_distribution, seed_photon_fields) ==
    _process_input_seed(
        [NoInstance EXCEPT !.cls = "InverseCompton",
                           !.particle_distribution = particle_distribution],
        seed_photon_fields)

InverseCompton_nelec(self) == Nelec(self, Num(4), Rat(21, 2), Num(300))

\* np.trapz(nelec * gamint, gam) for a population of unit amplitude: a
\* positive number for each temperature, dilution and photon energy
TrapzPlanck(T, uf, Ekey) ==
    (IF T = Tcmb THEN 1 ELSE IF T = Tfir THEN 2 ELSE IF T = Tnir THEN 3 ELSE 4)
    + (IF uf.bb THEN 0 ELSE 4)
    + (IF Ekey = Pow10(11) THEN 0 ELSE 8)

\* _calc_specic, lines 269-280: lum / outspecene, element i
_calc_specic(self, seed, f, i) ==
    LET uf == self.seeduf[seed]
        T == self.seedT[seed]
        lum == Qty(Num(Get(self.nelec).amp * TrapzPlanck(T, uf, EKey(At(f, i)))),
                   U_per_s)
    IN  QDiv(lum, At(f, i))

\* a + b for two array quantities of the same unit
ArrAdd(a, b) ==
    Arr([i \in 1..Len(a) |-> Qty(NAdd(a[i].val, b[i].val), a[i].unit)])

\* the loop of lines 300-302 with = in place of +=: the last seed only
SumSeeds_LastOnly(self, f, k, specic) ==
    IF Len(self.seed_photon_fields) = 0 THEN specic
    ELSE Arr([i \in 1..Len(f.vals) |->
                QTo(_calc_specic(self,
                        self.seed_photon_fields[Len(self.seed_photon_fields)].str,
                        f, i),
                    U_per_s_eV)])

\* the loop of lines 300-302 from seed k on
RECURSIVE SumSeedsFrom(_, _, _, _)
SumSeedsFrom(self, f, k, specic) ==
    IF k > Len(self.seed_photon_fields) THEN specic
    ELSE SumSeedsFrom(self, f, k + 1,
             ArrAdd(specic,
                    Arr([i \in 1..Len(f.vals) |->
                        QTo(_calc_specic(self, self.seed_photon_fields[k].str, f, i),
                            U_per_s_eV)])))

\* InverseCompton.flux, lines 294-304
InverseCompton_flux(self, f) ==
    LET s1 == InverseCompton_nelec(self)
        specic == SumSeedsFrom(s1, f, 1, Zeros(Len(f.vals), U_per_s_eV))
        s2 == [s1 EXCEPT !.specic = Some(specic)]
    IN  Done(s2, [f EXCEPT !.nquad = Len(f.vals) * Len(self.seed_photon_fields)],
             ArrTo(specic, U_per_s_eV))

(* ------------------------------------------------------------------ *)
(* PionDecay                                                          *)
(* ------------------------------------------------------------------ *)

\* PionDecay.__init__: kwargs are put on the instance as attributes; the
\* only one the methods read is Etrans
PionDecay_init(particle_distribution, kwargs) ==
    [NoInstance EXCEPT !.cls = "PionDecay",
                       !.particle_distribution = particle_distribution,
                       !.Etrans = kwargs]

EtransDefault == Qty(Rat(1, 10), U_TeV)

\* _calc_specpp_hiE: c * quad(_photon_integrand, 0, 1) in 1/(s TeV)
_calc_specpp_hiE(self, Egamma) ==
    Qty(Num(self.particle_distribution.hi[EKey(Egamma)]), U_per_s_TeV)

\* _delta_integrand without the factor self.nhat
_delta_integrand_NoNhat(self, Egamma) ==
    Num(self.particle_distribution.lo[EKey(Egamma)])

\* quad(_delta_integrand, Epimin, inf): the integrand is linear in self.nhat
_delta_integrand(self, Egamma) ==
    NMul(Get(self.nhat), Num(self.particle_distribution.lo[EKey(Egamma)]))

\* _calc_specpp_loE: 2 * quad(_delta_integrand) in 1/(s TeV)
_calc_specpp_loE(self, Egamma) ==
    Qty(NMul(Num(2), _delta_integrand(self, Egamma)), U_per_s_TeV)

\* np.any(outspecene < Etrans) and np.any(outspecene >= Etrans)
MixedRegimes(f, Etrans) ==
    /\ \E i \in 1..Len(f.vals) : QLess(At(f, i), Etrans)
    /\ \E i \in 1..Len(f.vals) : QGeq(At(f, i), Etrans)

\* flux, line 460 (and sed, line 506, which validates and calls flux)
PionEnter(self, kind, arg) == Pair(self, Enter(kind, arg, "threshold"))

\* lines 463-467: W_p above threshold, stored and logged
PionThreshold(self, f) ==
    LET Wp == Qty(Num(self.particle_distribution.wp), U_TeV)
    IN  Pair([self EXCEPT !.Wp = Some(QDiv(QTo(Wp, U_erg),
                                           Qty(Num(1), U_cm5)))],
             [f EXCEPT !.pc = "etrans", !.nquad = f.nquad + 1])

\* lines 469-475: default or validated transition energy
PionEtrans(self, f) ==
    IF ~IsSet(self.Etrans)
    THEN Pair([self EXCEPT !.Etrans = Some(EtransDefault)],
              [f EXCEPT !.pc = "reset"])
    ELSE IF validate_scalar(Get(self.Etrans), DimEnergy, TRUE)
         THEN Pair(self, [f EXCEPT !.pc = "reset"])
         ELSE Fail(self, f, "ValueError")

\* lines 479-480 without the reset: nhat is set to 1 only when the
\* instance has none yet
PionResetNhat_KeepOld(self, f) ==
    Pair([self EXCEPT !.nhat = IF IsSet(self.nhat) THEN self.nhat
                                ELSE Some(Num(1))],
         [f EXCEPT !.pc = IF MixedRegimes(f, Get(self.Etrans))
                          THEN "calibrate" ELSE "alloc"])

\* lines 479-480 without the test of line 480: every request calibrates
PionResetNhat_AlwaysCalibrate(self, f) ==
    Pair([self EXCEPT !.nhat = Some(Num(1))], [f EXCEPT !.pc = "calibrate"])

\* lines 479-480: reset of nhat, then the test for a mixed request
PionResetNhat(self, f) ==
    Pair([self EXCEPT !.nhat = Some(Num(1))],
         [f EXCEPT !.pc = IF MixedRegimes(f, Get(self.Etrans))
                          THEN "calibrate" ELSE "alloc"])

\* lines 483-484: both formulas at Etrans, the low one with the current nhat
PionCalibrate(self, f) ==
    Pair(self, [f EXCEPT !.pc = "calwrite", !.nquad = f.nquad + 2,
                         !.full = Some(_calc_specpp_hiE(self, Get(self.Etrans))),
                         !.delta = Some(_calc_specpp_loE(self, Get(self.Etrans)))])

\* line 485 with the ratio inverted: self.nhat *= delta / full
PionCalWrite_Inverted(self, f) ==
    Pair([self EXCEPT !.nhat =
              Some(NMul(Get(self.nhat),
                        QBase(QDiv(Get(f.delta), Get(f.full)))))],
         [f EXCEPT !.pc = "alloc", !.full = None, !.delta = None])

\* line 485: self.nhat *= (full / delta).decompose().value
PionCalWrite(self, f) ==
    Pair([self EXCEPT !.nhat =
              Some(NMul(Get(self.nhat),
                        QBase(QDiv(Get(f.full), Get(f.delta)))))],
         [f EXCEPT !.pc = "alloc", !.full = None, !.delta = None])

\* line 487 with the array kept when the instance has one that is long
\* enough
PionAlloc_ReuseBuffer(self, f) ==
    Pair([self EXCEPT !.specpp =
              IF IsSet(self.specpp) /\ Len(Get(self.specpp)) >= Len(f.vals)
              THEN self.specpp
              ELSE Some(Zeros(Len(f.vals), U_per_s_TeV))],
         [f EXCEPT !.pc = IF Len(f.vals) = 0 THEN "return" ELSE "item",
                   !.i = 1])

\* line 487, and the first test of the loop of line 489
PionAlloc(self, f) ==
    Pair([self EXCEPT !.specpp = Some(Zeros(Len(f.vals), U_per_s_TeV))],
         [f EXCEPT !.pc = IF Len(f.vals) = 0 THEN "return" ELSE "item",
                   !.i = 1])

\* lines 490-493 with > in place of >=: an energy equal to Etrans goes to
\* the low-energy formula
PionItem_StrictlyAbove(self, f) ==
    LET Egamma == At(f, f.i)
    IN  Pair(self,
             [f EXCEPT !.pc = "store", !.nquad = f.nquad + 1,
                       !.val = IF QLess(Get(self.Etrans), Egamma)
                               THEN Some(_calc_specpp_hiE(self, Egamma))
                               ELSE Some(_calc_specpp_loE(self, Egamma))])

\* lines 490-493, the right-hand side for element i
PionItem(self, f) ==
    LET Egamma == At(f, f.i)
    IN  Pair(self,
             [f EXCEPT !.pc = "store", !.nquad = f.nquad + 1,
                       !.val = IF QGeq(Egamma, Get(self.Etrans))
                               THEN Some(_calc_specpp_hiE(self, Egamma))
                               ELSE Some(_calc_specpp_loE(self, Egamma))])

\* lines 491, 493: self.specpp[i] = value, then the next test of the loop
PionStore(self, f) ==
    IF f.i > Len(Get(self.specpp))
    THEN Fail(self, [f EXCEPT !.val = None], "IndexError")
    ELSE Pair([self EXCEPT !.specpp =
                   Some([Get(self.specpp) EXCEPT
                            ![f.i] = QTo(Get(f.val), U_per_s_TeV)])],
              [f EXCEPT !.pc = IF f.i = Len(f.vals) THEN "return" ELSE "item",
                        !.i = f.i + 1, !.val = None])

\* line 495, and for sed line 510
PionReturn(self, f) ==
    LET spec == ArrTo(Get(self.specpp), U_per_s_eV)
    IN  IF f.kind = "flux"
        THEN Pair(self, [f EXCEPT !.pc = "done", !.spec = spec, !.ret = spec])
        ELSE IF Len(spec) # Len(f.vals)
        THEN Fail(self, [f EXCEPT !.spec = spec], "ValueError")
        ELSE Pair(self, [f EXCEPT !.pc = "done", !.spec = spec,
                                  !.ret = SedOf(spec, f)])

\* the step of PionDecay.flux at the frame's position
PionStep(self, f) ==
    CASE f.pc = "threshold" -> PionThreshold(self, f)
      [] f.pc = "etrans" -> PionEtrans(self, f)
      [] f.pc = "reset" -> PionResetNhat(self, f)
      [] f.pc = "calibrate" -> PionCalibrate(self, f)
      [] f.pc = "calwrite" -> PionCalWrite(self, f)
      [] f.pc = "alloc" -> PionAlloc(self, f)
      [] f.pc = "item" -> PionItem(self, f)
      [] f.pc = "store" -> PionStore(self, f)
      [] f.pc = "return" -> PionReturn(self, f)
      [] OTHER -> Pair(self, f)

Finished(f) == f.pc \in {"idle", "done", "failed"}

\* a call run from entry to its end with no other call in between
RECURSIVE RunToEnd(_)
RunToEnd(p) == IF Finished(p.f) THEN p ELSE RunToEnd(PionStep(p.self, p.f))

(* ------------------------------------------------------------------ *)
(* State                                                              *)
(* ------------------------------------------------------------------ *)

VARIABLES
    ctor,    \* the constructor call that built the instance
    inst,    \* the model instance (self)
    thr,     \* per thread, the flux/sed call in progress or last finished
    shadow   \* history: per thread the instance as the call found it
             \* (kept until validation has passed), the nhat it found and
             \* whether the call met another call's writes; who last wrote
             \* nhat and who allocated and stored into the specpp array

vars == <<ctor, inst, thr, shadow>>

NoCtor == [cls |-> "none", particle_distribution |-> NoDistribution,
           kwargs |-> None, B |-> None, seed_photon_fields |-> None,
           err |-> ""]

SynchrotronDistributions ==
    {[NoDistribution EXCEPT !.sy = y] : y \in [EKeys -> KernelValues]}
\* B: the default 3.24e-6 G, and a value that is no magnetic field
BFields == {Qty(Norm(324, 1, -8, 0), U_G), Qty(Num(1), U_s)}

InverseComptonDistributions == {[NoDistribution EXCEPT !.amp = 2]}
Dust(T, uu) == ListSeed("list", 3, DUST, Qty(Num(T), U_K), Qty(Rat(uu, 2), U_eV_per_cm3))
SeedItems ==
    {StrSeed(CMB), StrSeed(XRAY), Dust(30, 1), Dust(30, 0),
     Dust(-1, 0), ListSeed("list", 2, DUST, Qty(Num(30), U_K), ZeroU),
     ListSeed("tuple", 3, DUST, Qty(Num(30), U_K), ZeroU)}
\* '-'.join(names)
RECURSIVE Join(_)
Join(names) ==
    IF Len(names) = 0 THEN <<>>
    ELSE IF Len(names) = 1 THEN names[1]
    ELSE names[1] \o <<"-">> \o Join(Tail(names))
SeedInputs ==
    {[form |-> "list", str |-> <<>>, items |-> it] :
        it \in SeqUpTo(SeedItems, MaxSeeds)}
    \cup {[form |-> "str", str |-> Join(names), items |-> <<>>] :
             names \in SeqUpTo({CMB, FIR, XRAY}, MaxSeeds)}

PionDistributions ==
    {[NoDistribution EXCEPT !.wp = w, !.hi = h, !.lo = l] :
        w \in {3}, h \in [EKeys -> KernelValues],
        l \in [EKeys -> KernelValues]}

\* Etrans keyword: not given, 0.05 TeV, 0 TeV, 1 s
EtransKwargs ==
    {None, Some(Qty(Rat(1, 20), U_TeV)), Some(Qty(Num(0), U_TeV)),
     Some(Qty(Num(1), U_s))}

Init ==
    /\ ctor = NoCtor
    /\ inst = NoInstance
    /\ thr = [t \in Threads |-> IdleFrame]
    /\ shadow = [before |-> [t \in Threads |-> NoInstance],
                 found |-> [t \in Threads |-> None],
                 met |-> [t \in Threads |-> FALSE],
                 nhatBy |-> 0, specppBy |-> 0, storedBy |-> {}]

ConstructPionDecay(pd, kwargs) ==
    /\ ctor.cls = "none"
    /\ ctor' = [NoCtor EXCEPT !.cls = "PionDecay",
                              !.particle_distribution = pd, !.kwargs = kwargs]
    /\ inst' = PionDecay_init(pd, kwargs)
    /\ UNCHANGED <<thr, shadow>>

ConstructSynchrotron(pd, B) ==
    /\ ctor.cls = "none"
    /\ LET r == Synchrotron_init(pd, B)
       IN  /\ ctor' = [NoCtor EXCEPT !.cls = "Synchrotron",
                                     !.particle_distribution = pd,
                                     !.B = Some(B),
                                     !.err = IF IsSet(r) THEN "" ELSE "UnitsError"]
           /\ inst' = IF IsSet(r) THEN Get(r) ELSE NoInstance
    /\ UNCHANGED <<thr, shadow>>

ConstructInverseCompton(pd, seed_photon_fields) ==
    /\ ctor.cls = "none"
    /\ LET r == InverseCompton_init(pd, seed_photon_fields)
       IN  /\ ctor' = [NoCtor EXCEPT !.cls = "InverseCompton",
                                     !.particle_distribution = pd,
                                     !.seed_photon_fields = Some(seed_photon_fields),
                                     !.err = r.err]
           /\ inst' = IF r.ok THEN r.self ELSE NoInstance
    /\ UNCHANGED <<thr, shadow>>

\* a whole flux or sed call of a Synchrotron or InverseCompton instance
WholeCall(t, kind, arg) ==
    /\ Finished(thr[t])
    /\ \E f \in {Enter(kind, arg, "body")} :
       \E p \in {IF f.pc = "failed" THEN Pair(inst, f)
                 ELSE IF inst.cls = "Synchrotron" THEN Synchrotron_flux(inst, f)
                 ELSE InverseCompton_flux(inst, f)} :
           /\ inst' = p.self
           /\ thr' = [thr EXCEPT ![t] = p.f]
           /\ shadow' = [shadow EXCEPT
                            !.before[t] = IF f.pc = "failed" THEN inst
                                          ELSE NoInstance]
    /\ UNCHANGED ctor

SynchrotronCall(t, kind, arg) ==
    inst.cls = "Synchrotron" /\ WholeCall(t, kind, arg)

InverseComptonCall(t, kind, arg) ==
    inst.cls = "InverseCompton" /\ WholeCall(t, kind, arg)

\* thread t enters flux or sed
PionCall(t, kind, arg) ==
    /\ inst.cls = "PionDecay"
    /\ Finished(thr[t])
    /\ thr' = [thr EXCEPT ![t] = PionEnter(inst, kind, arg).f]
    /\ shadow' = [shadow EXCEPT !.before[t] = inst, !.found[t] = inst.nhat,
                                !.met[t] = FALSE]
    /\ UNCHANGED <<ctor, inst>>

\* thread t takes the step at pc; reads and writes of the shared nhat and
\* specpp are recorded in shadow
Apply(t, pair, met, sh) ==
    /\ \E p \in {pair} :
          /\ inst' = p.self
          /\ thr' = [thr EXCEPT ![t] = p.f]
    /\ shadow' = [sh EXCEPT !.met[t] = shadow.met[t] \/ met]
    /\ UNCHANGED ctor

At_(t, pc) == inst.cls = "PionDecay" /\ thr[t].pc = pc

FluxThreshold(t) ==
    At_(t, "threshold") /\ Apply(t, PionThreshold(inst, thr[t]), FALSE, shadow)
FluxEtrans(t) ==
    At_(t, "etrans") /\ Apply(t, PionEtrans(inst, thr[t]), FALSE,
                              IF PionEtrans(inst, thr[t]).f.pc = "failed"
                              THEN shadow
                              ELSE [shadow EXCEPT !.before[t] = NoInstance])
FluxResetNhat(t) ==
    At_(t, "reset") /\ Apply(t, PionResetNhat(inst, thr[t]), FALSE,
                             [shadow EXCEPT !.nhatBy = t])
FluxCalibrate(t) ==
    At_(t, "calibrate") /\ Apply(t, PionCalibrate(inst, thr[t]),
                                 shadow.nhatBy # t, shadow)
FluxCalWrite(t) ==
    At_(t, "calwrite") /\ Apply(t, PionCalWrite(inst, thr[t]),
                                shadow.nhatBy # t,
                                [shadow EXCEPT !.nhatBy = t])
FluxAlloc(t) ==
    At_(t, "alloc") /\ Apply(t, PionAlloc(inst, thr[t]), FALSE,
                             [shadow EXCEPT !.specppBy = t, !.storedBy = {}])
FluxItem(t) ==
    At_(t, "item") /\ Apply(t, PionItem(inst, thr[t]),
                            /\ QLess(At(thr[t], thr[t].i), Get(inst.Etrans))
                            /\ shadow.nhatBy # t,
                            shadow)
FluxStore(t) ==
    At_(t, "store") /\ Apply(t, PionStore(inst, thr[t]),
                             shadow.specppBy # t,
                             [shadow EXCEPT !.storedBy = @ \cup {t}])
FluxReturn(t) ==
    At_(t, "return") /\ Apply(t, PionReturn(inst, thr[t]),
                              shadow.specppBy # t \/ shadow.storedBy \ {t} # {},
                              shadow)

\* lines 460-475 in one step: they write only Wp, which no step reads, and
\* the default Etrans, which every call writes before it reads it
FluxPrelude(t, arg) ==
    /\ inst.cls = "PionDecay"
    /\ thr[t].pc = "idle"
    /\ LET p == PionEnter(inst, "flux", arg)
           q == IF Finished(p.f) THEN p ELSE PionThreshold(p.self, p.f)
           r == IF Finished(q.f) THEN q ELSE PionEtrans(q.self, q.f)
       IN  Apply(t, r, FALSE, shadow)

PionSteps(t) ==
    \/ FluxThreshold(t) \/ FluxEtrans(t) \/ FluxResetNhat(t)
    \/ FluxCalibrate(t) \/ FluxCalWrite(t) \/ FluxAlloc(t)
    \/ FluxItem(t) \/ FluxStore(t) \/ FluxReturn(t)

Constructors ==
    /\ ctor.cls = "none"
    /\ \/ \E pd \in SynchrotronDistributions, B \in BFields :
             ConstructSynchrotron(pd, B)
       \/ \E pd \in InverseComptonDistributions, seeds \in SeedInputs :
             ConstructInverseCompton(pd, seeds)
       \/ \E pd \in PionDistributions, kw \in EtransKwargs :
             ConstructPionDecay(pd, kw)

\* one caller: calls on the instance are serialized
Next ==
    \/ Constructors
    \/ /\ Finished(thr[1])
       /\ \E kind \in {"flux", "sed"}, arg \in PhotonInputs :
             \/ SynchrotronCall(1, kind, arg)
             \/ InverseComptonCall(1, kind, arg)
             \/ PionCall(1, kind, arg)
    \/ PionSteps(1)

Spec == Init /\ [][Next]_vars

\* Two callers on one PionDecay instance (default Etrans), one flux call
\* each, their steps interleaved
InitConc ==
    /\ \E pd \in {d \in PionDistributions :
                        /\ d.hi[NMul(Num(5), Pow10(10))] = 1
                        /\ d.lo = [k \in EKeys |-> 1]} :
          /\ ctor = [NoCtor EXCEPT !.cls = "PionDecay",
                                   !.particle_distribution = pd]
          /\ inst = PionDecay_init(pd, None)
    /\ thr = [t \in Threads |-> IdleFrame]
    /\ shadow = [before |-> [t \in Threads |-> NoInstance],
                 found |-> [t \in Threads |-> None],
                 met |-> [t \in Threads |-> FALSE],
                 nhatBy |-> 0, specppBy |-> 0, storedBy |-> {}]

ConcInputs ==
    {[form |-> "quantity", cols |-> {}, vals |-> v, unit |-> U_GeV] :
         v \in SeqUpTo({Num(50), Num(100)}, MaxLen) \ {<<>>}}

NextConc ==
    \E t \in Threads :
        \/ \E arg \in ConcInputs : FluxPrelude(t, arg)
        \/ FluxResetNhat(t) \/ FluxCalibrate(t) \/ FluxCalWrite(t)
        \/ FluxAlloc(t) \/ FluxItem(t) \/ FluxStore(t) \/ FluxReturn(t)

SpecConc == InitConc /\ [][NextConc]_vars

(* ------------------------------------------------------------------ *)
(* Properties                                                         *)
(* ------------------------------------------------------------------ *)

\* the call kind(arg) on instance self, run from entry to return with no
\* other call in between
CallAlone(self, kind, arg) ==
    IF self.cls = "PionDecay" THEN RunToEnd(PionEnter(self, kind, arg))
    ELSE LET f == Enter(kind, arg, "body")
         IN  IF f.pc = "failed" THEN Pair(self, f)
             ELSE IF self.cls = "Synchrotron" THEN Synchrotron_flux(self, f)
             ELSE InverseCompton_flux(self, f)

\* the photon energies of a call, as an array Quantity
Energies(f) == [vals |-> f.vals, unit |-> f.unit]

\* C1: for all three classes, a sed call that returns has returned one
\* entry per photon energy, and entry i is flux(E)[i] * E[i]**2, where
\* flux(E) is what flux returns for the same argument on the instance.
C1_SedIsFluxTimesESquared ==
    \A t \in Threads :
        (thr[t].pc = "done" /\ thr[t].kind = "sed") =>
            LET flux == CallAlone(inst, "flux", Get(thr[t].arg)).f
            IN  /\ flux.pc = "done"
                /\ Len(thr[t].ret) = Len(thr[t].vals)
                /\ Len(flux.ret) = Len(thr[t].vals)
                /\ \A i \in 1..Len(thr[t].vals) :
                       QSame(thr[t].ret[i],
                             QMul(flux.ret[i],
                                  QMul(At(Energies(thr[t]), i),
                                       At(Energies(thr[t]), i))))

\* a PionDecay sed call has returned for two different photon energies
C1_Witness ==
    /\ inst.cls = "PionDecay"
    /\ thr[1].pc = "done" /\ thr[1].kind = "sed"
    /\ Len(thr[1].vals) = 2 /\ thr[1].vals[1] # thr[1].vals[2]
    /\ thr[1].ret[1].val.n # 0

\* the seed_photon_fields argument that names only entry k of the
\* instance's list: the name for CMB, FIR and NIR, else the 3-element
\* specification [name, T, u] the instance holds for it
SoloSeed(self, k) ==
    LET name == self.seed_photon_fields[k].str
    IN  IF name \in {CMB, FIR, NIR}
        THEN [form |-> "str", str |-> name, items |-> <<>>]
        ELSE [form |-> "list", str |-> <<>>,
              items |-> <<ListSeed("list", 3, name, self.seedT[name],
                                   IF self.seeduf[name].bb THEN ZeroU
                                   ELSE self.seeduf[name].uu)>>]

\* entry i of flux(arg) of the model built with entry k alone
SoloFlux(self, k, arg, i) ==
    CallAlone(InverseCompton_init(self.particle_distribution,
                                  SoloSeed(self, k)).self,
              "flux", arg).f.ret[i]

RECURSIVE SoloSum(_, _, _, _)
SoloSum(self, k, arg, i) ==
    IF k = 0 THEN Qty(Num(0), U_per_s_eV)
    ELSE LET a == SoloSum(self, k - 1, arg, i)
             b == SoloFlux(self, k, arg, i)
         IN  Qty(NAdd(a.val, b.val), a.unit)

\* C2: the flux an InverseCompton model returns is, entry by entry, the
\* sum over its seed_photon_fields list of the flux of the model built
\* with that seed alone (same particle distribution, same photon
\* energies); so the flux for "CMB-FIR" is the flux for "CMB" plus the
\* flux for "FIR".
C2_FieldSuperposition ==
    (inst.cls = "InverseCompton" /\ thr[1].pc = "done" /\ thr[1].kind = "flux")
    => \A i \in 1..Len(thr[1].vals) :
          /\ thr[1].ret[i].unit = U_per_s_eV
          /\ thr[1].ret[i] = SoloSum(inst, Len(inst.seed_photon_fields),
                                     Get(thr[1].arg), i)

\* the model built with "CMB-FIR" has returned the flux for two energies
C2_Witness ==
    /\ ctor.cls = "InverseCompton"
    /\ ctor.seed_photon_fields =
           Some([form |-> "str", str |-> Join(<<CMB, FIR>>), items |-> <<>>])
    /\ thr[1].pc = "done" /\ thr[1].kind = "flux"
    /\ Len(thr[1].vals) = 2
    /\ thr[1].ret[1].val.n # 0

\* the entries of a seed_photon_fields argument: the items of the list,
\* or the names between the hyphens of the string
Entries(sf) ==
    IF sf.form = "list" THEN sf.items
    ELSE [i \in 1..Len(Split(sf.str)) |-> StrSeed(Split(sf.str)[i])]

\* neither one of the names CMB, FIR, NIR nor a 3-element list
BadEntry(e) ==
    IF e.kind = "str" THEN e.str \notin {CMB, FIR, NIR}
    ELSE ~(e.kind = "list" /\ e.len = 3)

\* a known name, or [name, T, u] with T a positive temperature and u zero
\* or a positive energy density
ValidEntry(e) ==
    IF e.kind = "str" THEN e.str \in {CMB, FIR, NIR}
    ELSE /\ e.kind = "list" /\ e.len = 3
         /\ e.T.unit.dim = DimTemperature /\ e.T.val.n > 0
         /\ \/ e.uu.val.n = 0
            \/ e.uu.unit.dim = DimPressure /\ e.uu.val.n > 0

\* C3: when the seed_photon_fields given to InverseCompton has a bad entry
\* at any position, construction raises, no instance exists and no call
\* is ever made on it; when the entries before the bad one are valid the
\* error is the TypeError of lines 205 and 222.
C3_BadSeedFailsConstruction ==
    ctor.cls = "InverseCompton" =>
        LET es == Entries(Get(ctor.seed_photon_fields))
        IN  \A k \in 1..Len(es) :
                BadEntry(es[k]) =>
                    /\ ctor.err # ""
                    /\ inst = NoInstance
                    /\ thr[1] = IdleFrame
                    /\ (\A j \in 1..(k - 1) : ValidEntry(es[j]))
                           => ctor.err = "TypeError"

\* a list whose first entry is a valid [name, T, u] and whose second
\* entry is a tuple was rejected
C3_Witness ==
    /\ ctor.cls = "InverseCompton"
    /\ Get(ctor.seed_photon_fields).form = "list"
    /\ Len(Get(ctor.seed_photon_fields).items) = 2
    /\ ValidEntry(Get(ctor.seed_photon_fields).items[1])
    /\ Get(ctor.seed_photon_fields).items[1].kind = "list"
    /\ BadEntry(Get(ctor.seed_photon_fields).items[2])
    /\ ctor.err = "TypeError"

\* hiE(Etrans) / loE(Etrans evaluated with nhat = 1)
CalibratedNhat(self) ==
    QBase(QDiv(_calc_specpp_hiE(self, Get(self.Etrans)),
               _calc_specpp_loE([self EXCEPT !.nhat = Some(Num(1))],
                                Get(self.Etrans))))

\* C4: when a PionDecay call whose photon energies lie on both sides of
\* Etrans has returned, nhat is hiE(Etrans) / loE(Etrans, nhat = 1), the
\* low-energy formula at Etrans with that nhat equals the high-energy
\* formula at Etrans, and every low-energy entry of the result is the
\* low-energy formula with that nhat.
C4_NhatCalibratedAtEtrans ==
    (/\ inst.cls = "PionDecay"
     /\ thr[1].pc = "done"
     /\ MixedRegimes(thr[1], Get(inst.Etrans)))
    => LET Etrans == Get(inst.Etrans)
           calibrated == [inst EXCEPT !.nhat = Some(CalibratedNhat(inst))]
       IN  /\ inst.nhat = calibrated.nhat
           /\ QSame(_calc_specpp_loE(calibrated, Etrans),
                    _calc_specpp_hiE(inst, Etrans))
           /\ \A i \in 1..Len(thr[1].vals) :
                  QLess(At(thr[1], i), Etrans) =>
                      QSame(thr[1].spec[i],
                            _calc_specpp_loE(calibrated, At(thr[1], i)))

\* a call with energies on both sides of Etrans has returned and its
\* calibrated nhat is not 1
C4_Witness ==
    /\ inst.cls = "PionDecay"
    /\ thr[1].pc = "done"
    /\ MixedRegimes(thr[1], Get(inst.Etrans))
    /\ inst.nhat # Some(Num(1))

\* C5: when a PionDecay call has returned, its flux has one entry per
\* photon energy; entry i is the high-energy integral of E[i] when
\* E[i] >= Etrans and the low-energy approximation of E[i] when
\* E[i] < Etrans; no entry is zero, and the call has made one kernel
\* integration per entry besides the one for Wp and the two of the
\* calibration.
C5_OneRegimePerEnergy ==
    (inst.cls = "PionDecay" /\ thr[1].pc = "done")
    => /\ Len(thr[1].spec) = Len(thr[1].vals)
       /\ Len(thr[1].ret) = Len(thr[1].vals)
       /\ thr[1].kind = "flux" => thr[1].ret = thr[1].spec
       /\ thr[1].nquad = 1 + Len(thr[1].vals)
                           + (IF MixedRegimes(thr[1], Get(inst.Etrans))
                              THEN 2 ELSE 0)
       /\ \A i \in 1..Len(thr[1].vals) :
              /\ thr[1].spec[i].val.n # 0
              /\ thr[1].spec[i].unit = U_per_s_eV
              /\ QSame(thr[1].spec[i],
                       IF QGeq(At(thr[1], i), Get(inst.Etrans))
                       THEN _calc_specpp_hiE(inst, At(thr[1], i))
                       ELSE _calc_specpp_loE(inst, At(thr[1], i)))

\* flux has returned for [Etrans, E] with E < Etrans, the two entries
\* differing
C5_Witness ==
    /\ inst.cls = "PionDecay"
    /\ thr[1].pc = "done" /\ thr[1].kind = "flux"
    /\ Len(thr[1].vals) = 2
    /\ QSame(At(thr[1], 1), Get(inst.Etrans))
    /\ QLess(At(thr[1], 2), Get(inst.Etrans))
    /\ thr[1].ret[1] # thr[1].ret[2]

\* the instance as its constructor call built it
Fresh ==
    IF ctor.cls = "PionDecay"
    THEN PionDecay_init(ctor.particle_distribution, ctor.kwargs)
    ELSE IF ctor.cls = "Synchrotron"
    THEN Get(Synchrotron_init(ctor.particle_distribution, Get(ctor.B)))
    ELSE InverseCompton_init(ctor.particle_distribution,
                             Get(ctor.seed_photon_fields)).self

\* C6: whatever calls were made on the instance before, a finished flux
\* or sed call has the outcome (result, error, integrations made) of the
\* same call on a fresh instance of the same configuration, and when it
\* returned the instance holds the grid, population sample, nhat and
\* result array that call leaves on a fresh instance.
C6_HistoryIndependence ==
    (inst.cls # "none" /\ thr[1].pc \in {"done", "failed"})
    => LET alone == CallAlone(Fresh, thr[1].kind, Get(thr[1].arg))
       IN  /\ thr[1] = alone.f
           /\ thr[1].pc = "done" => inst = alone.self

\* a PionDecay flux call for energies on one side of Etrans has returned
\* on an instance whose nhat an earlier call had calibrated to a value
\* other than 1
C6_Witness ==
    /\ inst.cls = "PionDecay"
    /\ thr[1].pc = "done" /\ thr[1].kind = "flux"
    /\ Len(thr[1].vals) > 0
    /\ \A i \in 1..Len(thr[1].vals) : QLess(At(thr[1], i), Get(inst.Etrans))
    /\ IsSet(shadow.found[1]) /\ shadow.found[1] # Some(Num(1))

\* C7: when a flux or sed call has failed with an input-validation or a
\* configuration error, no integration has been made and the instance is
\* as the call found it.
C7_ErrorsAbortImmediately ==
    \A t \in Threads :
        thr[t].pc = "failed" =>
            /\ thr[t].nquad = 0
            /\ inst = shadow.before[t]

\* the frame thread t's call ends with when it runs with no other call
\* in between
AloneFrame(t) == CallAlone(Fresh, thr[t].kind, Get(thr[t].arg)).f

\* C8: of two interleaved PionDecay.flux calls on one instance, a call
\* that ends otherwise than it does when run alone has read the nhat the
\* other call wrote, or has written into or returned the array the other
\* call bound to self.specpp or stored into; C8_Witness is the
\* interleaving in which that happens.
C8_DivergenceOnlyThroughSharedState ==
    \A t \in Threads :
        (thr[t].pc \in {"done", "failed"} /\ thr[t] # AloneFrame(t))
            => shadow.met[t]

\* both calls have ended and one has returned a result that differs from
\* the result it returns when run alone
C8_Witness ==
    /\ \A t \in Threads : thr[t].pc \in {"done", "failed"}
    /\ \E t \in Threads :
          /\ thr[t].pc = "done"
          /\ AloneFrame(t).pc = "done"
          /\ thr[t].ret # AloneFrame(t).ret
          /\ shadow.met[t]

\* the positions of the per-energy dispatch (lines 487-495)
DispatchPcs == {"alloc", "item", "store", "return"}

\* one step of the caller on a PionDecay instance, by the position it is
\* taken from
C9_PhaseStep ==
    LET f == thr[1]
        g == thr'[1]
    IN  /\ Finished(f) => (g.pc \in {"threshold", "failed"} /\ inst' = inst)
        /\ f.pc = "threshold" =>
               (g.pc = "etrans" /\ IsSet(inst'.Wp) /\ inst'.nhat = inst.nhat)
        /\ f.pc = "etrans" => g.pc \in {"reset", "failed"}
        /\ f.pc = "reset" =>
               /\ inst'.nhat = Some(Num(1))
               /\ g.pc = IF MixedRegimes(f, Get(inst.Etrans))
                         THEN "calibrate" ELSE "alloc"
        /\ f.pc = "calibrate" => g.pc = "calwrite"
        /\ f.pc = "calwrite" => g.pc = "alloc"
        /\ f.pc = "alloc" => g.pc \in {"item", "return"}
        /\ f.pc = "item" => (g.pc = "store" /\ IsSet(g.val))
        /\ f.pc = "store" => g.pc \in {"item", "return"}
        /\ f.pc = "return" => g.pc = "done"
        /\ inst'.nhat # inst.nhat => f.pc \in {"reset", "calwrite"}
        /\ g.nquad > f.nquad => f.pc \in {"threshold", "calibrate", "item"}
        /\ f.pc \in DispatchPcs =>
               inst.nhat = IF MixedRegimes(f, Get(inst.Etrans))
                           THEN Some(CalibratedNhat(inst))
                           ELSE Some(Num(1))

\* C9: every step of a PionDecay.flux call moves it forward through
\* entry, threshold energy reported, Etrans settled, nhat reset,
\* calibration, dispatch, done: calibration follows the reset exactly
\* when the energies lie on both sides of Etrans, nhat is written only
\* by the reset and by the one write that ends calibration, integrations
\* are made only for Wp, in calibration and one per energy in dispatch,
\* and during dispatch nhat is the calibrated value, or 1 when
\* calibration was skipped.
C9_PhaseOrder == [][inst.cls = "PionDecay" => C9_PhaseStep]_vars

\* a call with energies on both sides of Etrans is past calibration, at
\* its second energy, with nhat other than 1
C9_Witness ==
    /\ inst.cls = "PionDecay"
    /\ thr[1].pc = "item" /\ thr[1].i = 2
    /\ MixedRegimes(thr[1], Get(inst.Etrans))
    /\ inst.nhat # Some(Num(1))

\* what flux returns on the instance for the request [E[i]] alone
SingleEnergyFlux(f, i) ==
    CallAlone(Fresh, "flux",
              [form |-> "quantity", cols |-> {}, vals |-> <<f.vals[i]>>,
               unit |-> f.unit]).f.ret[1]

\* C10 as stated: the value a PionDecay flux call returns for a photon
\* energy is the value returned for that energy requested alone.
C10_ValueIndependentOfRequest ==
    (inst.cls = "PionDecay" /\ thr[1].pc = "done" /\ thr[1].kind = "flux")
    => \A i \in 1..Len(thr[1].vals) :
          thr[1].ret[i] = SingleEnergyFlux(thr[1], i)

\* C10 amended: the value returned for an energy at or above Etrans is
\* the value returned for it requested alone; the value returned for an
\* energy below Etrans is that value times the nhat of the request: 1
\* when its energies lie on one side of Etrans, and
\* hiE(Etrans) / loE(Etrans, nhat = 1) when they lie on both sides.
C10_ValueUpToRequestNhat ==
    (inst.cls = "PionDecay" /\ thr[1].pc = "done" /\ thr[1].kind = "flux")
    => \A i \in 1..Len(thr[1].vals) :
          LET alone == SingleEnergyFlux(thr[1], i)
              nhat == IF MixedRegimes(thr[1], Get(inst.Etrans))
                      THEN CalibratedNhat(inst) ELSE Num(1)
          IN  IF QGeq(At(thr[1], i), Get(inst.Etrans))
              THEN thr[1].ret[i] = alone
              ELSE thr[1].ret[i] = QScale(nhat, alone)

\* a request with energies on both sides of Etrans has returned, for an
\* energy below Etrans, a value other than the one returned for that
\* energy alone
C10_Witness ==
    /\ inst.cls = "PionDecay"
    /\ thr[1].pc = "done" /\ thr[1].kind = "flux"
    /\ MixedRegimes(thr[1], Get(inst.Etrans))
    /\ \E i \in 1..Len(thr[1].vals) :
          /\ QLess(At(thr[1], i), Get(inst.Etrans))
          /\ thr[1].ret[i] # SingleEnergyFlux(thr[1], i)

\* a whole number
IsInteger(a) == a.d = 1 /\ a.e >= 0

\* C11: the grid _nelec has built spans 10^4 to 10^10 with 100 points per
\* decade for Synchrotron and 10^4 to 10^10.5 with 300 points per decade
\* for InverseCompton: the number of points asked of logspace is the
\* integer ngamd * (log10gmax - log10gmin), 600 and 1950.
C11_GridDensity ==
    IsSet(inst.gam) =>
        LET gam == Get(inst.gam)
            decades == NAdd(gam.stop, NMul(Num(-1), gam.start))
        IN  /\ gam.start = Num(4)
            /\ inst.cls = "Synchrotron" =>
                   (gam.stop = Num(10) /\ Get(inst.ngamd) = Num(100)
                    /\ gam.num = Num(600))
            /\ inst.cls = "InverseCompton" =>
                   (gam.stop = Rat(21, 2) /\ Get(inst.ngamd) = Num(300)
                    /\ gam.num = Num(1950))
            /\ IsInteger(gam.num)
            /\ gam.num = NMul(Get(inst.ngamd), decades)
====
